---- MODULE Spec2Model ----
(***************************************************************************)
(* A model of the plant-disease HTTP gateway of app.py: the start-up       *)
(* configuration of the AI client and the two request handlers             *)
(* analyze_image_endpoint and get_treatment_plan_endpoint.                 *)
(*                                                                         *)
(* Texts that come from outside the program (model replies, request        *)
(* bodies) are sequences of one-character strings, so that strip, replace, *)
(* the substring test and the JSON decoder work on them character by       *)
(* character.  String literals of the program are kept as single pieces.   *)
(* Python's None and JSON's null are the same value JNull.                 *)
(***************************************************************************)
EXTENDS Integers, Sequences, FiniteSets, TLC

\* Number of requests that may be in flight together.
NumReqs == 2
\* Longest reply core enumerated character by character.
MaxCore == 3

\* The backquote character (U+0060), which a TLA+ string literal cannot hold.
BT == "<backquote>"
QT == "\""
NL == "\n"

------------------------------------------------------------------------
(* Values: JSON values and the Python objects they decode to.              *)

JNull == [t |-> "null"]
JBool(b) == [t |-> "bool", b |-> b]
JNum(n) == [t |-> "num", n |-> n]
JStr(s) == [t |-> "str", s |-> s]
JArr(a) == [t |-> "arr", a |-> a]
JObj(m) == [t |-> "obj", m |-> m]

\* The empty dict.
EmptyMap == [k \in {} |-> JNull]

\* A result that is either a value or a raised exception.
Ok(v) == [ok |-> TRUE, v |-> v]
Raise(type, str) == [ok |-> FALSE, exc |-> [type |-> type, str |-> str]]

\* str(e)
StrExc(e) == e.str

------------------------------------------------------------------------
(* Python string operations used at app.py:83.                             *)

PyWhitespace == {" ", NL, "\t", "\r"}

RECURSIVE LStrip(_)
LStrip(s) ==
  IF s # <<>> /\ s[1] \in PyWhitespace THEN LStrip(Tail(s)) ELSE s

RECURSIVE RStrip(_)
RStrip(s) ==
  IF s # <<>> /\ s[Len(s)] \in PyWhitespace
    THEN RStrip(SubSeq(s, 1, Len(s) - 1))
    ELSE s

\* str.strip()
Strip(s) == RStrip(LStrip(s))

\* str.replace(old, ''): left to right, non-overlapping occurrences.
RECURSIVE Remove(_, _)
Remove(s, old) ==
  IF Len(s) < Len(old) THEN s
  ELSE IF SubSeq(s, 1, Len(old)) = old
    THEN Remove(SubSeq(s, Len(old) + 1, Len(s)), old)
    ELSE <<s[1]>> \o Remove(Tail(s), old)

\* needle in haystack, for two strings
IsSubstring(needle, hay) ==
  \E i \in 1..(Len(hay) - Len(needle) + 1) :
    SubSeq(hay, i, i + Len(needle) - 1) = needle

FenceJson == <<BT, BT, BT, "j", "s", "o", "n">>
Fence == <<BT, BT, BT>>

\* Variant: only the bare fence is removed.
CleanReplyFenceOnly(text) == Remove(Strip(text), Fence)

\* response.text.strip(), then removal of the json fence, then of the bare fence
CleanReply(text) == Remove(Remove(Strip(text), FenceJson), Fence)

------------------------------------------------------------------------
(* json.loads (app.py:84) on the subset of JSON the replies can spell:     *)
(* whitespace, non-negative integers, strings without escapes, the three   *)
(* literals, arrays and objects.  A failure carries the decoder's message  *)
(* and the 0-based character position, the parts of str(JSONDecodeError).  *)

JsonWs == {" ", NL, "\t", "\r"}
ControlChars == {NL, "\t", "\r"}
DigitChars == <<"0", "1", "2", "3", "4", "5", "6", "7", "8", "9">>
IsDigit(c) == \E d \in 1..10 : DigitChars[d] = c
DigitVal(c) == (CHOOSE d \in 1..10 : DigitChars[d] = c) - 1

Parsed(v, next) == [ok |-> TRUE, v |-> v, next |-> next]
DecodeError(msg, i) ==
  [ok |-> FALSE, exc |-> [type |-> "JSONDecodeError", str |-> <<msg, i - 1>>]]

RECURSIVE SkipWs(_, _)
SkipWs(s, i) ==
  IF i <= Len(s) /\ s[i] \in JsonWs THEN SkipWs(s, i + 1) ELSE i

\* s[i] is the opening quote.
ParseString(s, i) ==
  LET closing == {j \in (i + 1)..Len(s) : s[j] = QT}
      stop == IF closing = {} THEN Len(s) + 1
              ELSE CHOOSE j \in closing : \A k \in closing : j <= k
      ctl == {j \in (i + 1)..(stop - 1) : s[j] \in ControlChars}
  IN IF ctl # {}
       THEN DecodeError("Invalid control character at",
                        CHOOSE j \in ctl : \A k \in ctl : j <= k)
     ELSE IF closing = {}
       THEN DecodeError("Unterminated string starting at", i)
     ELSE Parsed(SubSeq(s, i + 1, stop - 1), stop + 1)

RECURSIVE ParseDigits(_, _, _)
ParseDigits(s, i, acc) ==
  IF i <= Len(s) /\ IsDigit(s[i])
    THEN ParseDigits(s, i + 1, 10 * acc + DigitVal(s[i]))
    ELSE Parsed(JNum(acc), i)

\* s[i] is a digit; a leading 0 is a number of its own.
ParseNumber(s, i) ==
  IF s[i] = "0" THEN Parsed(JNum(0), i + 1) ELSE ParseDigits(s, i, 0)

StartsAt(s, i, word) ==
  /\ i + Len(word) - 1 <= Len(s)
  /\ SubSeq(s, i, i + Len(word) - 1) = word

RECURSIVE ParseValue(_, _)
RECURSIVE ParseMembers(_, _, _)
RECURSIVE ParseElements(_, _, _)

\* i is just behind "{" or behind a "," and its whitespace; m is the dict so far.
ParseMembers(s, i, m) ==
  IF i > Len(s) \/ s[i] # QT
    THEN DecodeError("Expecting property name enclosed in double quotes", i)
  ELSE
    LET key == ParseString(s, i) IN
    IF ~key.ok THEN key
    ELSE
      LET c == SkipWs(s, key.next) IN
      IF c > Len(s) \/ s[c] # ":"
        THEN DecodeError("Expecting ':' delimiter", c)
      ELSE
        LET val == ParseValue(s, SkipWs(s, c + 1)) IN
        IF ~val.ok THEN val
        ELSE
          LET m2 == [k \in DOMAIN m \cup {key.v} |->
                       IF k = key.v THEN val.v ELSE m[k]]
              e == SkipWs(s, val.next)
          IN IF e <= Len(s) /\ s[e] = "}" THEN Parsed(JObj(m2), e + 1)
             ELSE IF e <= Len(s) /\ s[e] = ","
               THEN ParseMembers(s, SkipWs(s, e + 1), m2)
             ELSE DecodeError("Expecting ',' delimiter", e)

\* i is at the first character of the next element; a is the list so far.
ParseElements(s, i, a) ==
  LET val == ParseValue(s, i) IN
  IF ~val.ok THEN val
  ELSE
    LET e == SkipWs(s, val.next) IN
    IF e <= Len(s) /\ s[e] = "]" THEN Parsed(JArr(Append(a, val.v)), e + 1)
    ELSE IF e <= Len(s) /\ s[e] = ","
      THEN ParseElements(s, SkipWs(s, e + 1), Append(a, val.v))
    ELSE DecodeError("Expecting ',' delimiter", e)

ParseValue(s, i) ==
  IF i > Len(s) THEN DecodeError("Expecting value", i)
  ELSE IF s[i] = QT THEN
    LET r == ParseString(s, i) IN
    IF r.ok THEN Parsed(JStr(r.v), r.next) ELSE r
  ELSE IF s[i] = "{" THEN
    LET j == SkipWs(s, i + 1) IN
    IF j <= Len(s) /\ s[j] = "}" THEN Parsed(JObj(EmptyMap), j + 1)
    ELSE ParseMembers(s, j, EmptyMap)
  ELSE IF s[i] = "[" THEN
    LET j == SkipWs(s, i + 1) IN
    IF j <= Len(s) /\ s[j] = "]" THEN Parsed(JArr(<<>>), j + 1)
    ELSE ParseElements(s, j, <<>>)
  ELSE IF IsDigit(s[i]) THEN ParseNumber(s, i)
  ELSE IF StartsAt(s, i, <<"n", "u", "l", "l">>) THEN Parsed(JNull, i + 4)
  ELSE IF StartsAt(s, i, <<"t", "r", "u", "e">>) THEN Parsed(JBool(TRUE), i + 4)
  ELSE IF StartsAt(s, i, <<"f", "a", "l", "s", "e">>)
    THEN Parsed(JBool(FALSE), i + 5)
  ELSE DecodeError("Expecting value", i)

\* json.loads(s): one value between optional whitespace and nothing else.
JsonLoads(s) ==
  LET r == ParseValue(s, SkipWs(s, 1)) IN
  IF ~r.ok THEN r
  ELSE LET e == SkipWs(s, r.next) IN
       IF e # Len(s) + 1 THEN DecodeError("Extra data", e)
       ELSE Ok(r.v)

------------------------------------------------------------------------
(* Python truth value, membership and subscription, as used on the decoded *)
(* request body at app.py:96-99.                                           *)

TypeError(msg) == Raise("TypeError", <<msg>>)

\* bool(v): None, False, 0, '', [] and {} are false.
Truthy(v) ==
  CASE v.t = "null" -> FALSE
    [] v.t = "bool" -> v.b
    [] v.t = "num" -> v.n # 0
    [] v.t = "str" -> v.s # <<>>
    [] v.t = "arr" -> v.a # <<>>
    [] v.t = "obj" -> DOMAIN v.m # {}

\* key in v, for a string key: a key of a dict, an element of a list, a
\* substring of a string; any other operand is not iterable.
Contains(key, v) ==
  CASE v.t = "obj" -> Ok(key \in DOMAIN v.m)
    [] v.t = "arr" -> Ok(\E i \in 1..Len(v.a) : v.a[i] = JStr(key))
    [] v.t = "str" -> Ok(IsSubstring(key, v.s))
    [] v.t = "num" -> TypeError("argument of type 'int' is not iterable")
    [] v.t = "bool" -> TypeError("argument of type 'bool' is not iterable")
    [] v.t = "null" -> TypeError("argument of type 'NoneType' is not iterable")

\* v[key], for a string key.
GetItem(v, key) ==
  CASE v.t = "obj" ->
         IF key \in DOMAIN v.m THEN Ok(v.m[key]) ELSE Raise("KeyError", key)
    [] v.t = "arr" -> TypeError("list indices must be integers or slices, not str")
    [] v.t = "str" -> TypeError("string indices must be integers")
    [] OTHER -> TypeError("object is not subscriptable")

RECURSIVE Decimal(_)
Decimal(n) ==
  IF n < 10 THEN <<DigitChars[n + 1]>>
  ELSE Decimal(n \div 10) \o <<DigitChars[(n % 10) + 1]>>

\* str(v) of a scalar, what str.format puts in place of a field.
PyStr(v) ==
  CASE v.t = "str" -> v.s
    [] v.t = "num" -> Decimal(v.n)
    [] v.t = "null" -> <<"N", "o", "n", "e">>
    [] v.t = "bool" -> IF v.b THEN <<"T", "r", "u", "e">>
                       ELSE <<"F", "a", "l", "s", "e">>

------------------------------------------------------------------------
(* The prompts (app.py:37-62).  The template is its literal pieces and its *)
(* one replacement field; the long literal texts are abbreviated.          *)

image_analysis_prompt ==
  <<"You are an expert plant pathologist. ... outside of the JSON object.">>

treatment_plan_prompt_template ==
  << [lit |-> "You are an agricultural advisor. A farmer has identified "],
     [lit |-> QT],
     [field |-> "disease_name"],
     [lit |-> QT],
     [lit |-> " on their plant. Generate a concise, actionable treatment plan. ..."] >>

\* template.format(**kwargs): every field replaced by str() of its argument.
RECURSIVE Format(_, _)
Format(template, kwargs) ==
  IF template = <<>> THEN <<>>
  ELSE LET p == Head(template)
           piece == IF "lit" \in DOMAIN p THEN <<p.lit>> ELSE PyStr(kwargs[p.field])
       IN piece \o Format(Tail(template), kwargs)

\* The name of the body field, as characters.
DiseaseName == <<"d", "i", "s", "e", "a", "s", "e", "_", "n", "a", "m", "e">>

------------------------------------------------------------------------
(* Responses.                                                              *)

\* jsonify(value), status
Respond(status, body) == [status |-> status, body |-> body]

\* jsonify({"error": message}), status
ErrorResponse(status, message) ==
  Respond(status, JObj(<<"error">> :> JStr(message)))

\* What the framework answers when a view function raises (no handler is
\* registered): 500 Internal Server Error, an HTML page.
UnhandledError(exc) ==
  Respond(500, [t |-> "html", s |-> <<"Internal Server Error">>])

\* A step of a handler ends in a response or in the call to the model.
Reply(resp, opened, printed) ==
  [do |-> "respond", resp |-> resp, opened |-> opened, printed |-> printed]
Call(contents, opened) ==
  [do |-> "call", contents |-> contents, opened |-> opened, printed |-> {}]

------------------------------------------------------------------------
(* analyze_image_endpoint (app.py:66-90).                                  *)

\* Image.open(file.stream)
ImageOpen(stream) ==
  IF stream.format \in {"PNG", "JPEG"} THEN Ok([pixels |-> stream.data])
  ELSE Raise("UnidentifiedImageError", <<"cannot identify image file">>)

\* The except clause of app.py:88-90.
AnalysisFailed(exc, opened) ==
  Reply(ErrorResponse(500, <<"An error occurred during analysis: ">> \o StrExc(exc)),
        opened,
        {<<"Error in /analyze-image: ">> \o StrExc(exc)})

\* Variant: looks for the upload under the field name "image".
analyze_image_endpoint_wrong_field(files) ==
  IF "image" \notin DOMAIN files
    THEN Reply(ErrorResponse(400, <<"No file part">>), 0, {})
  ELSE IF files["image"].filename = ""
    THEN Reply(ErrorResponse(400, <<"No selected file">>), 0, {})
  ELSE LET img == ImageOpen(files["image"].stream) IN
       IF ~img.ok THEN AnalysisFailed(img.exc, 1)
       ELSE Call(<<[text |-> image_analysis_prompt], [image |-> img.v]>>, 1)

\* Variant: the filename is tested against None, which it never is.
analyze_image_endpoint_filename_none(files) ==
  IF "file" \notin DOMAIN files
    THEN Reply(ErrorResponse(400, <<"No file part">>), 0, {})
  ELSE LET img == ImageOpen(files["file"].stream) IN
       IF ~img.ok THEN AnalysisFailed(img.exc, 1)
       ELSE Call(<<[text |-> image_analysis_prompt], [image |-> img.v]>>, 1)

\* Variant: the image is opened before the filename is looked at.
analyze_image_endpoint_eager_open(files) ==
  IF "file" \notin DOMAIN files
    THEN Reply(ErrorResponse(400, <<"No file part">>), 0, {})
  ELSE LET img == ImageOpen(files["file"].stream) IN
       IF files["file"].filename = ""
         THEN Reply(ErrorResponse(400, <<"No selected file">>), 1, {})
       ELSE IF ~img.ok THEN AnalysisFailed(img.exc, 1)
       ELSE Call(<<[text |-> image_analysis_prompt], [image |-> img.v]>>, 1)

\* From the entry of the handler to its call of model.generate_content.
analyze_image_endpoint(files) ==
  IF "file" \notin DOMAIN files
    THEN Reply(ErrorResponse(400, <<"No file part">>), 0, {})
  ELSE IF files["file"].filename = ""
    THEN Reply(ErrorResponse(400, <<"No selected file">>), 0, {})
  ELSE LET img == ImageOpen(files["file"].stream) IN
       IF ~img.ok THEN AnalysisFailed(img.exc, 1)
       ELSE Call(<<[text |-> image_analysis_prompt], [image |-> img.v]>>, 1)

\* response.text: the reply's text, or ValueError when the reply has none.
ResponseText(response) ==
  IF response.blocked
    THEN Raise("ValueError", <<"response.text requires a valid Part">>)
    ELSE Ok(response.text)

\* Variant: a reply that does not parse is passed on as a string.
analyze_image_endpoint_return_raw(outcome) ==
  IF ~outcome.ok THEN AnalysisFailed(outcome.exc, 0)
  ELSE LET text == ResponseText(outcome.v) IN
       IF ~text.ok THEN AnalysisFailed(text.exc, 0)
       ELSE LET result == JsonLoads(CleanReply(text.v)) IN
            IF ~result.ok THEN Reply(Respond(200, JStr(text.v)), 0, {})
            ELSE Reply(Respond(200, result.v), 0, {})

\* Variant: a failed call is made once more.
analyze_image_endpoint_return_retry(outcome) ==
  IF ~outcome.ok THEN Call(<<[text |-> image_analysis_prompt]>>, 0)
  ELSE LET text == ResponseText(outcome.v) IN
       IF ~text.ok THEN AnalysisFailed(text.exc, 0)
       ELSE LET result == JsonLoads(CleanReply(text.v)) IN
            IF ~result.ok THEN AnalysisFailed(result.exc, 0)
            ELSE Reply(Respond(200, result.v), 0, {})

\* From the return of model.generate_content to the response.
analyze_image_endpoint_return(outcome) ==
  IF ~outcome.ok THEN AnalysisFailed(outcome.exc, 0)
  ELSE LET text == ResponseText(outcome.v) IN
       IF ~text.ok THEN AnalysisFailed(text.exc, 0)
       ELSE LET result == JsonLoads(CleanReply(text.v)) IN
            IF ~result.ok THEN AnalysisFailed(result.exc, 0)
            ELSE Reply(Respond(200, result.v), 0, {})

------------------------------------------------------------------------
(* get_treatment_plan_endpoint (app.py:92-112).                            *)

\* request.get_json() on a body that is JSON: the decoded value.
GetJson(body) == body

\* The except clause of app.py:110-112.
PlanFailed(exc) ==
  Reply(ErrorResponse(500, <<"An error occurred while generating the plan: ">>
                             \o StrExc(exc)),
        0,
        {<<"Error in /get-treatment-plan: ">> \o StrExc(exc)})

\* From the entry of the handler to its call of model.generate_content.  The
\* test of line 96 and the subscription of line 99 are outside the try.
get_treatment_plan_endpoint(body) ==
  LET data == GetJson(body)
      missing == Reply(ErrorResponse(400, <<"Missing 'disease_name' in request body">>),
                       0, {})
  IN IF ~Truthy(data) THEN missing
     ELSE LET has == Contains(DiseaseName, data) IN
          IF ~has.ok THEN Reply(UnhandledError(has.exc), 0, {})
          ELSE IF ~has.v THEN missing
          ELSE LET disease_name == GetItem(data, DiseaseName) IN
               IF ~disease_name.ok THEN Reply(UnhandledError(disease_name.exc), 0, {})
               ELSE Call(<<[text |-> Format(treatment_plan_prompt_template,
                                            [disease_name |-> disease_name.v])]>>, 0)

\* Variant: the reply text is stripped before it is returned.
get_treatment_plan_endpoint_return_stripped(outcome) ==
  IF ~outcome.ok THEN PlanFailed(outcome.exc)
  ELSE LET text == ResponseText(outcome.v) IN
       IF ~text.ok THEN PlanFailed(text.exc)
       ELSE Reply(Respond(200, JObj(<<"plan">> :> JStr(Strip(text.v)))), 0, {})

\* From the return of model.generate_content to the response.
get_treatment_plan_endpoint_return(outcome) ==
  IF ~outcome.ok THEN PlanFailed(outcome.exc)
  ELSE LET text == ResponseText(outcome.v) IN
       IF ~text.ok THEN PlanFailed(text.exc)
       ELSE Reply(Respond(200, JObj(<<"plan">> :> JStr(text.v))), 0, {})

------------------------------------------------------------------------
(* Start-up (app.py:17-32) and the external model.                         *)

\* os.environ.get(name)
EnvironGet(env, name) ==
  IF name \in DOMAIN env THEN JStr(env[name]) ELSE JNull

\* The module-level configuration: a missing or empty key is printed and
\* swallowed, the model handle is created and the routes are registered.
Configure(env) ==
  LET api_key == EnvironGet(env, "GEMINI_API_KEY") IN
  IF ~Truthy(api_key)
    THEN [configured |-> FALSE,
          printed |-> {<<"CRITICAL ERROR: ",
                         "GEMINI_API_KEY environment variable not set.">>},
          phase |-> "serving"]
    ELSE [configured |-> TRUE, printed |-> {}, phase |-> "serving"]

\* What model.generate_content can hand back to its caller: a reply with a
\* text, a reply without one, or an exception.  Without a configured key the
\* call can only raise (app.py:26-27: "endpoints will fail").
GenerateContentOutcomes(isConfigured, texts) ==
  IF ~isConfigured
    THEN {Raise("DefaultCredentialsError", <<"No API_KEY or ADC found.">>)}
    ELSE {Ok([blocked |-> FALSE, text |-> t]) : t \in texts}
         \cup {Ok([blocked |-> TRUE])}
         \cup {Raise("ServiceUnavailable", <<"503 The model is overloaded.">>)}

------------------------------------------------------------------------
(* What clients and the external model can produce.                        *)

Reqs == 1..NumReqs

EmptyFiles == [k \in {} |-> JNull]
Upload(filename, stream) == [filename |-> filename, stream |-> stream]
PngA == [data |-> "A", format |-> "PNG"]
JpegB == [data |-> "B", format |-> "JPEG"]
Junk == [data |-> "C", format |-> "unknown"]

Environs ==
  {[k \in {} |-> <<>>],
   [k \in {"GEMINI_API_KEY"} |-> <<>>],
   [k \in {"GEMINI_API_KEY"} |-> <<"A", "I", "z", "a">>]}

BlackRot == <<"B", "l", "a", "c", "k", " ", "R", "o", "t">>
Rust == <<"R", "u", "s", "t">>
Other == <<"o", "t", "h", "e", "r">>

FullUploads ==
  {EmptyFiles, "image" :> Upload("leaf.png", PngA)}
  \cup {"file" :> Upload(n, s) : n \in {"", "leaf.png"}, s \in {PngA, JpegB, Junk}}
  \cup {("file" :> Upload(n, PngA)) @@ ("extra" :> Upload("x.png", JpegB)) :
          n \in {"", "leaf.png"}}

DiseaseValues ==
  {JStr(BlackRot), JStr(<<>>), JStr(<<"{", "x", "}">>), JStr(<<" ", QT, "R", NL>>),
   JStr(Fence \o Rust), JNum(42), JNum(0), JNull, JBool(TRUE)}

FullBodies ==
  {JNull, JBool(FALSE), JBool(TRUE), JNum(0), JNum(5),
   JStr(<<>>), JStr(Rust), JStr(DiseaseName), JStr(<<"a">> \o DiseaseName \o <<"b">>),
   JArr(<<>>), JArr(<<JNum(1)>>), JArr(<<JStr(DiseaseName)>>),
   JObj(EmptyMap), JObj(Other :> JStr(BlackRot))}
  \cup {JObj(DiseaseName :> d) : d \in DiseaseValues}
  \cup {JObj((DiseaseName :> JStr(Rust)) @@ (Other :> JNum(1)))}

CoreAlphabet == {BT, QT, "1", " ", "a", "{", "}"}
CoreTexts == UNION {[1..n -> CoreAlphabet] : n \in 0..MaxCore}

FencedJson(core) == FenceJson \o <<NL>> \o core \o <<NL>> \o Fence
FencedPlain(core) == Fence \o core \o Fence
Padded(core) == <<" ", NL>> \o core \o <<NL>>

\* {"plant":"Tomato","disease":"Healthy"} shortened to {"p":"T","d":"H"}
SampleObject ==
  <<"{", QT, "p", QT, ":", QT, "T", QT, ",", QT, "d", QT, ":", QT, "H", QT, "}">>
SampleTexts ==
  {SampleObject,
   <<QT, BT, BT, BT, QT>>,
   <<"{", QT, "d", QT, ":", QT, "a">> \o FenceJson \o <<"b", QT, "}">>,
   <<"[", "1", ",", " ", "t", "r", "u", "e", ",", "n", "u", "l", "l", "]">>,
   <<"{", QT, "a", QT, ":", "1", ",", QT, "a", QT, ":", "2", "}">>,
   <<"[", "1", ",", "]">>,
   <<"{", QT, "a", QT, " ", "1", "}">>,
   <<"H", "i", " ">> \o Fence \o SampleObject \o Fence}

FullTexts ==
  UNION {{c, FencedJson(c), FencedPlain(c), Padded(c)} : c \in CoreTexts \cup SampleTexts}

\* The traffic of a run: "concurrent" has few inputs and every client,
\* "single" has one client and every input enumerated above.
Clients(tr) == IF tr = "concurrent" THEN Reqs ELSE {1}
Uploads(tr) ==
  IF tr = "concurrent"
    THEN {EmptyFiles, "file" :> Upload("a.png", PngA), "file" :> Upload("b.jpg", JpegB)}
    ELSE FullUploads
Bodies(tr) ==
  IF tr = "concurrent"
    THEN {JObj(EmptyMap), JObj(DiseaseName :> JStr(BlackRot)),
          JObj(DiseaseName :> JStr(Rust))}
    ELSE FullBodies
Texts(tr) ==
  IF tr = "concurrent" THEN {<<"1">>, FencedJson(<<"2">>)} ELSE FullTexts

------------------------------------------------------------------------
(* The state machine.                                                      *)

VARIABLES
  phase,       \* "boot" until the module level has run, then "serving"
  environ,     \* os.environ
  configured,  \* whether genai.configure was given a key
  stdout,      \* the lines printed
  traffic,     \* which clients, inputs and replies this run draws from
  pc,          \* per request: "idle", "calling", "returned", "done"
  request,     \* per request: the request being handled
  sent,        \* per request: the contents passed to model.generate_content
  opened,      \* per request: the number of Image.open calls
  upstream,    \* per request: what model.generate_content handed back
  resp         \* per request: the responses emitted

vars ==
  <<phase, environ, configured, stdout, traffic, pc, request, sent, opened,
    upstream, resp>>

InitWith(t) ==
  /\ phase = "boot"
  /\ environ \in Environs
  /\ configured = FALSE
  /\ stdout = {}
  /\ traffic = t
  /\ pc = [r \in Reqs |-> "idle"]
  /\ request = [r \in Reqs |-> JNull]
  /\ sent = [r \in Reqs |-> <<>>]
  /\ opened = [r \in Reqs |-> 0]
  /\ upstream = [r \in Reqs |-> JNull]
  /\ resp = [r \in Reqs |-> <<>>]

Init == InitWith("concurrent")
InitFull == InitWith("single")

Startup ==
  /\ phase = "boot"
  /\ LET c == Configure(environ) IN
       /\ phase' = c.phase
       /\ configured' = c.configured
       /\ stdout' = stdout \cup c.printed
  /\ UNCHANGED <<environ, traffic, pc, request, sent, opened, upstream, resp>>

\* The effect of one step of a handler of request r.
Step(r, step) ==
  /\ opened' = [opened EXCEPT ![r] = @ + step.opened]
  /\ stdout' = stdout \cup step.printed
  /\ IF step.do = "call"
       THEN /\ sent' = [sent EXCEPT ![r] = Append(@, step.contents)]
            /\ pc' = [pc EXCEPT ![r] = "calling"]
            /\ resp' = resp
       ELSE /\ resp' = [resp EXCEPT ![r] = Append(@, step.resp)]
            /\ pc' = [pc EXCEPT ![r] = "done"]
            /\ sent' = sent

\* Variant: the reply is kept in one process-wide slot.
ReturnedToShared(r) == upstream[CHOOSE q \in Reqs : pc[q] = "returned"]

\* The reply the resumed handler of r holds in its local variable response.
ReturnedTo(r) == upstream[r]

AnalyzeImageCalled(r) ==
  /\ phase = "serving"
  /\ r \in Clients(traffic)
  /\ pc[r] = "idle"
  /\ \E files \in Uploads(traffic) :
       /\ request' = [request EXCEPT ![r] =
                        [endpoint |-> "/analyze-image", files |-> files]]
       /\ Step(r, analyze_image_endpoint(files))
  /\ UNCHANGED <<phase, environ, configured, traffic, upstream>>

GetTreatmentPlanCalled(r) ==
  /\ phase = "serving"
  /\ r \in Clients(traffic)
  /\ pc[r] = "idle"
  /\ \E body \in Bodies(traffic) :
       /\ request' = [request EXCEPT ![r] =
                        [endpoint |-> "/get-treatment-plan", json |-> body]]
       /\ Step(r, get_treatment_plan_endpoint(body))
  /\ UNCHANGED <<phase, environ, configured, traffic, upstream>>

\* The external model answers the call of request r.
GenerateContent(r) ==
  /\ pc[r] = "calling"
  /\ \E outcome \in GenerateContentOutcomes(configured, Texts(traffic)) :
       upstream' = [upstream EXCEPT ![r] = outcome]
  /\ pc' = [pc EXCEPT ![r] = "returned"]
  /\ UNCHANGED <<phase, environ, configured, stdout, traffic, request, sent,
                 opened, resp>>

AnalyzeImageResumed(r) ==
  /\ pc[r] = "returned"
  /\ request[r].endpoint = "/analyze-image"
  /\ Step(r, analyze_image_endpoint_return(ReturnedTo(r)))
  /\ UNCHANGED <<phase, environ, configured, traffic, request, upstream>>

GetTreatmentPlanResumed(r) ==
  /\ pc[r] = "returned"
  /\ request[r].endpoint = "/get-treatment-plan"
  /\ Step(r, get_treatment_plan_endpoint_return(ReturnedTo(r)))
  /\ UNCHANGED <<phase, environ, configured, traffic, request, upstream>>

Next ==
  \/ Startup
  \/ \E r \in Reqs : AnalyzeImageCalled(r)
  \/ \E r \in Reqs : GetTreatmentPlanCalled(r)
  \/ \E r \in Reqs : GenerateContent(r)
  \/ \E r \in Reqs : AnalyzeImageResumed(r)
  \/ \E r \in Reqs : GetTreatmentPlanResumed(r)

Spec == Init /\ [][Next]_vars
SpecFull == InitFull /\ [][Next]_vars

------------------------------------------------------------------------
(* Properties.                                                             *)

Active(r) == pc[r] # "idle"
Done(r) == pc[r] = "done"
IsImage(r) == Active(r) /\ request[r].endpoint = "/analyze-image"
IsPlan(r) == Active(r) /\ request[r].endpoint = "/get-treatment-plan"
HasFile(files) == "file" \in DOMAIN files

MissingFieldResponse ==
  ErrorResponse(400, <<"Missing 'disease_name' in request body">>)
NoFilePartResponse == ErrorResponse(400, <<"No file part">>)
NoSelectedFileResponse == ErrorResponse(400, <<"No selected file">>)

\* The body is an object that has the field.
HasDiseaseName(body) == body.t = "obj" /\ DiseaseName \in DOMAIN body.m

\* C1: every /get-treatment-plan request whose body lacks the disease_name
\* field (null, an empty object, an object with other keys only, or a value
\* that is no object) is answered 400 with the missing-field error, never 200
\* or 500.
C1_LackingFieldAnswered400 ==
  \A r \in Reqs :
    (Done(r) /\ IsPlan(r) /\ ~HasDiseaseName(request[r].json))
      => resp[r] = <<MissingFieldResponse>>

\* C2: every /analyze-image request whose form has no `file` field is answered
\* 400 "No file part", whatever else the form holds and whether or not the
\* credential was configured.
C2_NoFilePart ==
  \A r \in Reqs :
    (Done(r) /\ IsImage(r) /\ ~HasFile(request[r].files))
      => resp[r] = <<NoFilePartResponse>>

\* A request with another upload but no `file` was answered, on a server
\* started without the credential.
C2_Witness ==
  \E r \in Reqs :
    /\ Done(r) /\ IsImage(r) /\ ~configured
    /\ ~HasFile(request[r].files) /\ request[r].files # EmptyFiles
    /\ resp[r] = <<NoFilePartResponse>>

\* C3: every /analyze-image request whose `file` field has the empty filename
\* is answered 400 "No selected file", whatever bytes it carries, and that
\* answer is only given when the `file` field is present.
C3_NoSelectedFile ==
  \A r \in Reqs :
    (Done(r) /\ IsImage(r)) =>
      /\ (HasFile(request[r].files) /\ request[r].files["file"].filename = "")
           => resp[r] = <<NoSelectedFileResponse>>
      /\ resp[r] = <<NoSelectedFileResponse>> => HasFile(request[r].files)

\* An upload with the empty filename and bytes that are no image was answered.
C3_Witness ==
  \E r \in Reqs :
    /\ Done(r) /\ IsImage(r) /\ HasFile(request[r].files)
    /\ request[r].files["file"] = Upload("", Junk)
    /\ resp[r] = <<NoSelectedFileResponse>>

\* The request passed every validation check of its handler.
PassedValidation(req) ==
  IF req.endpoint = "/analyze-image"
    THEN HasFile(req.files) /\ req.files["file"].filename # ""
    ELSE HasDiseaseName(req.json)

\* C4: a request answered 400 has caused no image decode and no call to the
\* model, and a decode or a call happens only for a request that passed all
\* of its validation checks.
C4_NoUpstreamOnValidationError ==
  \A r \in Reqs :
    /\ (\E i \in 1..Len(resp[r]) : resp[r][i].status = 400)
         => (opened[r] = 0 /\ sent[r] = <<>>)
    /\ (Active(r) /\ (opened[r] > 0 \/ sent[r] # <<>>))
         => PassedValidation(request[r])

\* A decodable image uploaded under the empty filename was answered 400 and
\* was never opened.
C4_Witness ==
  \E r \in Reqs :
    /\ Done(r) /\ IsImage(r) /\ HasFile(request[r].files)
    /\ request[r].files["file"] = Upload("", PngA)
    /\ resp[r][1].status = 400 /\ opened[r] = 0 /\ sent[r] = <<>>

\* The model handed a reply with a text back to the call of request r.
HasReplyText(r) ==
  /\ upstream[r] # JNull
  /\ upstream[r].ok
  /\ ~upstream[r].v.blocked
ReplyText(r) == upstream[r].v.text

\* The reply, stripped, opens with the json fence and closes with the fence.
InFence(t) ==
  LET s == Strip(t) IN
    /\ Len(s) >= Len(FenceJson) + Len(Fence)
    /\ SubSeq(s, 1, Len(FenceJson)) = FenceJson
    /\ SubSeq(s, Len(s) - Len(Fence) + 1, Len(s)) = Fence
Inner(t) ==
  LET s == Strip(t) IN SubSeq(s, Len(FenceJson) + 1, Len(s) - Len(Fence))

\* C5 as stated: the body of the 200 response is the value parsed from the
\* cleaned reply; a reply that is JSON wrapped in a json fence yields exactly
\* that JSON, and a reply that is bare JSON yields that JSON unchanged.
C5_ParsedReplyReturned ==
  \A r \in Reqs :
    (Done(r) /\ IsImage(r) /\ HasReplyText(r)) =>
      LET t == ReplyText(r) IN
        /\ JsonLoads(CleanReply(t)).ok
             => resp[r] = <<Respond(200, JsonLoads(CleanReply(t)).v)>>
        /\ JsonLoads(t).ok => resp[r] = <<Respond(200, JsonLoads(t).v)>>
        /\ (InFence(t) /\ JsonLoads(Inner(t)).ok)
             => resp[r] = <<Respond(200, JsonLoads(Inner(t)).v)>>

\* C5 as amended: the body of the 200 response is the value parsed from the
\* cleaned reply; a reply that is JSON wrapped in a json fence, or bare JSON,
\* yields exactly that JSON provided the JSON text holds no fence marker.
C5_ParsedReplyReturnedUnlessFenceInside ==
  \A r \in Reqs :
    (Done(r) /\ IsImage(r) /\ HasReplyText(r)) =>
      LET t == ReplyText(r) IN
        /\ JsonLoads(CleanReply(t)).ok
             => resp[r] = <<Respond(200, JsonLoads(CleanReply(t)).v)>>
        /\ (JsonLoads(t).ok /\ ~IsSubstring(Fence, t))
             => resp[r] = <<Respond(200, JsonLoads(t).v)>>
        /\ (InFence(t) /\ JsonLoads(Inner(t)).ok /\ ~IsSubstring(Fence, Inner(t)))
             => resp[r] = <<Respond(200, JsonLoads(Inner(t)).v)>>

\* The sample object came back inside a json fence and was returned as the
\* object itself.
C5_Witness ==
  \E r \in Reqs :
    /\ Done(r) /\ IsImage(r) /\ HasReplyText(r)
    /\ ReplyText(r) = FencedJson(SampleObject)
    /\ resp[r] = <<Respond(200, JObj((<<"p">> :> JStr(<<"T">>))
                                      @@ (<<"d">> :> JStr(<<"H">>))))>>

\* The first of the three processing steps of a validated image request that
\* failed, or the parsed reply when none did.
AnalysisOutcome(r) ==
  LET img == ImageOpen(request[r].files["file"].stream) IN
  IF ~img.ok THEN img
  ELSE IF ~upstream[r].ok THEN upstream[r]
  ELSE IF ~ResponseText(upstream[r].v).ok THEN ResponseText(upstream[r].v)
  ELSE JsonLoads(CleanReply(ReplyText(r)))

\* C6: a validated /analyze-image request whose image decode, model call
\* (reading the reply text included) or JSON parse fails is answered once, with
\* 500 and {"error": "An error occurred during analysis: <str(e)>"}; it is
\* answered 200 only when all three steps succeeded.
C6_GenericFailure ==
  \A r \in Reqs :
    (Done(r) /\ IsImage(r) /\ PassedValidation(request[r])) =>
      LET out == AnalysisOutcome(r) IN
        /\ Len(resp[r]) = 1
        /\ IF out.ok
             THEN resp[r][1].status = 200
             ELSE resp[r][1] =
                    ErrorResponse(500, <<"An error occurred during analysis: ">>
                                         \o StrExc(out.exc))

\* A reply that is no JSON after cleaning was answered 500.
C6_Witness ==
  \E r \in Reqs :
    /\ Done(r) /\ IsImage(r) /\ HasReplyText(r)
    /\ ~JsonLoads(CleanReply(ReplyText(r))).ok
    /\ resp[r][1].status = 500

\* C7: for a /get-treatment-plan request whose body has disease_name = d, the
\* prompt sent is the template with str(d) in place of its one field, between
\* the double quotes; a reply text t is answered 200 {"plan": t} with t
\* untouched, and a failed call or unreadable reply is answered 500 with
\* {"error": "An error occurred while generating the plan: <str(e)>"}.
C7_PlanPromptAndReply ==
  \A r \in Reqs :
    (IsPlan(r) /\ HasDiseaseName(request[r].json)) =>
      LET d == request[r].json.m[DiseaseName]
          tpl == treatment_plan_prompt_template
          prompt == <<tpl[1].lit, QT>> \o PyStr(d) \o <<QT, tpl[5].lit>>
      IN /\ sent[r] = << <<[text |-> prompt]>> >>
         /\ d.t = "str" => IsSubstring(<<QT>> \o d.s \o <<QT>>, sent[r][1][1].text)
         /\ Done(r) =>
              IF ~upstream[r].ok
                THEN resp[r] = <<ErrorResponse(500,
                         <<"An error occurred while generating the plan: ">>
                           \o StrExc(upstream[r].exc))>>
              ELSE IF upstream[r].v.blocked
                THEN resp[r] = <<ErrorResponse(500,
                         <<"An error occurred while generating the plan: ">>
                           \o StrExc(ResponseText(upstream[r].v).exc))>>
              ELSE resp[r] = <<Respond(200, JObj(<<"plan">> :> JStr(ReplyText(r))))>>

\* "Black Rot" was asked about and a reply of whitespace around a fence marker
\* came back as it was.
C7_Witness ==
  \E r \in Reqs :
    /\ Done(r) /\ IsPlan(r)
    /\ request[r].json = JObj(DiseaseName :> JStr(BlackRot))
    /\ HasReplyText(r) /\ ReplyText(r) = Padded(Fence)
    /\ resp[r][1].status = 200
    /\ resp[r][1].body.m[<<"plan">>].s = <<" ", NL, BT, BT, BT, NL>>

\* What a validated request sends to the model, from the request alone.
ExpectedContents(req) ==
  IF req.endpoint = "/analyze-image"
    THEN <<[text |-> image_analysis_prompt],
           [image |-> [pixels |-> req.files["file"].stream.data]]>>
    ELSE <<[text |-> Format(treatment_plan_prompt_template,
                            [disease_name |-> req.json.m[DiseaseName]])]>>

\* The response to a request whose call came back with outcome, from the two.
ExpectedResponse(req, outcome) ==
  IF req.endpoint = "/analyze-image"
    THEN analyze_image_endpoint_return(outcome).resp
    ELSE get_treatment_plan_endpoint_return(outcome).resp

C8_OwnInputOwnReply ==
  \A r \in Reqs :
    (Active(r) /\ sent[r] # <<>>) =>
      /\ sent[r] = <<ExpectedContents(request[r])>>
      /\ Done(r) => resp[r] = <<ExpectedResponse(request[r], upstream[r])>>

C8_HandlersLeaveGlobals ==
  phase = "serving" => UNCHANGED <<phase, environ, configured>>

\* C8: under any interleaving of requests, what is sent to the model for a
\* request is built from that request alone, its response is determined by it
\* and by the reply to its own call, and no handler step changes the
\* process-wide configuration.
C8_NoInterference ==
  []C8_OwnInputOwnReply /\ [][C8_HandlersLeaveGlobals]_vars

\* Two requests to the same endpoint with different inputs and different
\* replies were both answered 200.
C8_Witness ==
  /\ Done(1) /\ Done(2)
  /\ request[1].endpoint = request[2].endpoint
  /\ request[1] # request[2]
  /\ HasReplyText(1) /\ HasReplyText(2) /\ ReplyText(1) # ReplyText(2)
  /\ resp[1][1].status = 200 /\ resp[2][1].status = 200

\* C9: started without the credential (unset or empty), the error is printed
\* and the server serves; every request that passes validation is answered 500
\* by the generic error path (after its call to the model, unless the image
\* did not decode), every request that fails validation is answered 400
\* without a call to the model.
C9_UnconfiguredServes ==
  (phase # "boot" /\ ~Truthy(EnvironGet(environ, "GEMINI_API_KEY"))) =>
    /\ phase = "serving"
    /\ <<"CRITICAL ERROR: ", "GEMINI_API_KEY environment variable not set.">>
         \in stdout
    /\ \A r \in Reqs :
         Done(r) =>
           IF PassedValidation(request[r])
             THEN /\ resp[r][1].status = 500
                  /\ <<"error">> \in DOMAIN resp[r][1].body.m
                  /\ (IsPlan(r) \/ ImageOpen(request[r].files["file"].stream).ok)
                       => Len(sent[r]) = 1
             ELSE resp[r][1].status = 400 /\ sent[r] = <<>>

C10_OneCallOneResponseState ==
  \A r \in Reqs :
    /\ Len(sent[r]) <= 1
    /\ Len(resp[r]) = (IF Done(r) THEN 1 ELSE 0)

C10_OneCallOneResponseStep ==
  \A r \in Reqs :
    /\ resp'[r] # resp[r] => (pc[r] \in {"idle", "returned"} /\ pc'[r] = "done")
    /\ pc[r] = "calling" => pc'[r] \in {"calling", "returned"}
    /\ pc[r] = "returned" => (sent'[r] = sent[r] /\ pc'[r] \in {"returned", "done"})
    /\ pc[r] = "done" => (pc'[r] = "done" /\ sent'[r] = sent[r])

====
